---------------------------- MODULE Spec2Model ----------------------------
(***************************************************************************)
(* A model of create-daily-note.py: the script that imports calendar       *)
(* events into Todoist, reconciles the previous daily note with Todoist,   *)
(* and renders the tasks of the day into the note.                         *)
(*                                                                         *)
(* Text is modelled as a sequence of tokens (strings): a rendered line is  *)
(* the sequence of the pieces the f-string of the code puts together, and  *)
(* the regular expression of read_existing_note is matched on the tokens.  *)
(* Times are minutes since 00:00 UTC of day 0, a date is a day number.     *)
(***************************************************************************)
EXTENDS Integers, Sequences, FiniteSets, TLC

VARIABLES
  \* ---- format_todoist_tasks and read_existing_note, step by step
  fpc,              \* position in format_todoist_tasks / read_existing_note
  input_tasks,      \* the argument `tasks` of format_todoist_tasks
  is_today,         \* the argument `is_today`
  project_names,    \* result of get_project_names(): project id -> name
  today,            \* the render date (day number, UTC)
  ftasks,           \* local `tasks` (rebound to the deduplicated list)
  child_tasks,      \* local `child_tasks`: parent id -> list of tasks
  formatted_tasks,  \* local `formatted_tasks`: list of lines
  note_records,     \* result of read_existing_note on the rendered text
  call,             \* number of the call of format_todoist_tasks
  first_text,       \* what the first call returned
  \* ---- the to-do service and the files
  todoist,          \* the active tasks of the service (REST /tasks)
  synced_log,       \* synced_events.log: list of lines
  requests,         \* the mutating requests sent to the service, in order
  \* ---- sync_google_calendar_to_todoist
  pc,               \* position in create_daily_note
  dry_run,          \* the --dry-run flag
  events,           \* events[c]: what the listing of calendar c returns
  cal_i,            \* the calendar being processed
  ev_i,             \* index of the next event of that calendar
  import_run,       \* number of the import pass
  last,             \* the event examined last and what it came to
  settled,          \* <<run, event>>: the run created the event's task or
                    \* found a duplicate of it
  \* ---- create_daily_note and sync_tasks_with_todoist
  note,             \* today's note file: whether it exists, and its lines
  archive,          \* the completed tasks of the service
  feed,             \* the items of /sync/v9/completed/get_all
  existing_tasks,   \* result of read_existing_note(full_path)
  tasks,            \* local `tasks` of create_daily_note
  todoist_completion_times,  \* the ids of the map built from the feed
  note_i,           \* index of `note_task` in the outer loop
  task_i,           \* index of `todoist_task` in the inner loop
  formatted_backlog,  \* local `formatted_backlog`, bound or not
  formatted_future,   \* local `formatted_future`, bound or not
  failed,           \* the fetches of the run that met a transport error
  steps,            \* the steps of the run so far, each with the number of
                    \* mutating requests sent before it
  before            \* the note and the service as the run found them

fvars == <<fpc, input_tasks, is_today, project_names, today, ftasks,
           child_tasks, formatted_tasks, note_records, call, first_text>>

svars == <<todoist, synced_log, requests>>

ivars == <<pc, dry_run, events, cal_i, ev_i, import_run, last, settled>>

rvars == <<note, archive, feed, existing_tasks, tasks,
           todoist_completion_times, note_i, task_i, formatted_backlog,
           formatted_future, failed, steps, before>>

vars == <<fvars, svars, ivars, rvars>>

-----------------------------------------------------------------------------
(* Bounds *)

\* Longest task collection handed to format_todoist_tasks.
MaxTasks == 3

\* Most events one calendar listing returns.
MaxEvents == 2

\* Number of import passes run one after the other.
MaxImportRuns == 2

-----------------------------------------------------------------------------
(* Generic helpers *)

\* Python's comparison of two tuples of integers of one length.
TupleLess(a, b) ==
  \E k \in DOMAIN a : a[k] < b[k] /\ \A m \in 1..(k - 1) : a[m] = b[m]

\* Python's sorted()/list.sort(): the stable sort of s by the keys, keys[i]
\* the key tuple of s[i].
StableSort(s, keys) ==
  LET n == Len(s)
      rank(i) == Cardinality({j \in 1..n :
                    \/ TupleLess(keys[j], keys[i])
                    \/ ~TupleLess(keys[i], keys[j]) /\ j < i}) + 1
  IN [k \in 1..n |-> s[CHOOSE i \in 1..n : rank(i) = k]]

SeqOf(S, n) == UNION {[1..m -> S] : m \in 0..n}

Range(s) == {s[i] : i \in DOMAIN s}

Pad2(n) == IF n < 10 THEN "0" \o ToString(n) ELSE ToString(n)

\* strftime("%H:%M") of an instant t shifted to the zone with offset off.
HHMM(t, off) == Pad2(((t + off) \div 60) % 24) \o ":" \o Pad2((t + off) % 60)

-----------------------------------------------------------------------------
(* Tasks *)

\* The label text that older imports appended to the title.
GoogleSuffix == " @Google-kalenterin tapahtuma"

\* Offset of the local zone of the machine (astimezone()), in minutes.
LocalUtcOffset == 120

\* A task dict.  parent_id = 0 stands for None / absent, due_day = 0 for a
\* task without due.datetime, duration = 0 for no duration.
Task(id, content, completed, priority, parent_id, project_id, due_day, due_time, duration) ==
  [id |-> id, content |-> content, completed |-> completed,
   priority |-> priority, parent_id |-> parent_id, project_id |-> project_id,
   due_day |-> due_day, due_time |-> due_time, duration |-> duration,
   is_subtask |-> FALSE]

\* content.replace(" @Google-kalenterin tapahtuma", "")
StripSuffix(content) == SelectSeq(content, LAMBDA c : c # GoogleSuffix)

\* str(task.get('parent_id')) if task.get('parent_id') else None
ParentStr(task) ==
  IF task.parent_id # 0 THEN ToString(task.parent_id) ELSE "None"

\* unique_key with the is_subtask flag of the task as a third part.
unique_key_WithFlag(task) ==
  StripSuffix(task.content)
    \o <<"_", ParentStr(task), IF task.is_subtask THEN "s" ELSE "">>

\* unique_key = f"{content}_{parent_id}"
unique_key(task) == StripSuffix(task.content) \o <<"_", ParentStr(task)>>

-----------------------------------------------------------------------------
(* format_todoist_tasks *)

\* Index of the entry of the dict `unique_tasks` with key k, 0 if none.
KeyIndex(uniq, k) ==
  IF \E i \in DOMAIN uniq : uniq[i].key = k
    THEN CHOOSE i \in DOMAIN uniq : uniq[i].key = k
    ELSE 0

\* IsNewer without the comparison of the ids: the last task seen wins.
IsNewer_LastWins(task, stored) == TRUE

\* The test that lets a task replace the entry already stored under its key.
IsNewer(task, stored) == task.id > stored.id

\* The loop that fills `unique_tasks`.  The dict is a list of (key, task)
\* entries in insertion order: assigning to an existing key keeps its place.
RECURSIVE DedupFrom(_, _, _)
DedupFrom(ts, i, uniq) ==
  IF i > Len(ts) THEN uniq
  ELSE LET task == ts[i]
           k == unique_key(task)
           pos == KeyIndex(uniq, k)
       IN IF pos = 0
            THEN DedupFrom(ts, i + 1, Append(uniq, [key |-> k, task |-> task]))
            ELSE IF IsNewer(task, uniq[pos].task)
              THEN DedupFrom(ts, i + 1, [uniq EXCEPT ![pos].task = task])
              ELSE DedupFrom(ts, i + 1, uniq)

\* tasks = list(unique_tasks.values())
Deduplicated(ts) ==
  LET uniq == DedupFrom(ts, 1, <<>>) IN [i \in DOMAIN uniq |-> uniq[i].task]

\* The same loop, keeping for every key the position in ts of the stored
\* object.
RECURSIVE StoredPositionsFrom(_, _, _)
StoredPositionsFrom(ts, i, uniq) ==
  IF i > Len(ts) THEN {uniq[n].at : n \in DOMAIN uniq}
  ELSE LET task == ts[i]
           k == unique_key(task)
           pos == KeyIndex(uniq, k)
       IN IF pos = 0
            THEN StoredPositionsFrom(ts, i + 1,
                                     Append(uniq, [key |-> k, task |-> task,
                                                   at |-> i]))
            ELSE IF IsNewer(task, uniq[pos].task)
              THEN StoredPositionsFrom(ts, i + 1,
                                       [uniq EXCEPT ![pos].task = task,
                                                    ![pos].at = i])
              ELSE StoredPositionsFrom(ts, i + 1, uniq)

\* The caller's list after a call: line 219 sets is_subtask on the stored
\* objects that have a parent_id, and these are the objects of the list.
TasksAfterCall(ts) ==
  LET stored == StoredPositionsFrom(ts, 1, <<>>)
  IN [i \in DOMAIN ts |->
        IF i \in stored /\ ts[i].parent_id # 0
          THEN [ts[i] EXCEPT !.is_subtask = TRUE] ELSE ts[i]]

\* task['is_subtask'] = True for every task with a parent_id.
MarkSubtasks(ts) ==
  [i \in DOMAIN ts |->
     IF ts[i].parent_id # 0 THEN [ts[i] EXCEPT !.is_subtask = TRUE] ELSE ts[i]]

\* child_tasks: parent id -> the tasks naming it, in list order.
GroupChildren(ts) ==
  [p \in {ts[i].parent_id : i \in {j \in DOMAIN ts : ts[j].parent_id # 0}} |->
     SelectSeq(ts, LAMBDA t : t.parent_id = p)]

\* root_tasks = [task for task in tasks if not task.get('parent_id')]
RootTasks(ts) == SelectSeq(ts, LAMBDA t : t.parent_id = 0)

\* strftime('%H%M%S') of the due time, '999999' for an unscheduled task;
\* strings of six digits compare as the numbers they spell.
SortTime(task) ==
  IF task.due_day # 0
    THEN (task.due_time \div 60) * 10000 + (task.due_time % 60) * 100
    ELSE 999999

\* sort_key with the completion flag left out of the key.
sort_key_NoCompleted(task) ==
  <<0, 0 - task.priority, SortTime(task), 0 - task.id>>

sort_key(task) ==
  <<IF task.completed THEN 1 ELSE 0, 0 - task.priority, SortTime(task), 0 - task.id>>

SortedTasks(ts) == StableSort(ts, [i \in DOMAIN ts |-> sort_key(ts[i])])

\* checkbox = "x" if task.get("completed", False) else " "
Checkbox(task) == IF task.completed THEN "x" ELSE " "

\* priority_tag = f'<i d="p{5-priority}">p{5-priority}</i> ' if priority > 1
PriorityTag(task) ==
  IF task.priority > 1
    THEN <<"<i d=\"p", ToString(5 - task.priority), "\">p",
           ToString(5 - task.priority), "</i> ">>
    ELSE <<>>

\* time_str: "HH:MM - HH:MM " in local time, only for a task scheduled on the
\* render date that has a duration.
TimeStr(task, day) ==
  IF task.due_day # 0 /\ task.due_day = day /\ task.duration # 0
    THEN <<HHMM(task.due_time, LocalUtcOffset), " - ",
           HHMM(task.due_time + task.duration, LocalUtcOffset), " ">>
    ELSE <<>>

\* The tokens that [^a-zA-Z0-9\s] keeps.
AlnumTokens == {"a", "b", "c", "d"}

\* create_class_string(content)
create_class_string(content) == SelectSeq(content, LAMBDA c : c \in AlnumTokens)

\* project_names.get(project_id, "")
ProjectName(task, pnames) ==
  IF task.project_id \in DOMAIN pnames THEN pnames[task.project_id] ELSE ""

\* The f-string of task_line / child_line.
TaskLine(task, indent, pname, day) ==
  LET content == StripSuffix(task.content)
  IN indent \o <<"- [", Checkbox(task), "] ">> \o TimeStr(task, day)
       \o PriorityTag(task)
       \o <<"<span data-id=\"", ToString(task.id), "\" data-project=\"", pname,
            "\" class=\"">> \o create_class_string(content)
       \o <<"\"", ">", "</span>">> \o content

\* The lines of one root task: its own line, then the lines of the tasks
\* grouped under its id, sorted, each with the root's project name.
RootBlock(root, child, pnames, day) ==
  LET pname == ProjectName(root, pnames)
      children == IF root.id \in DOMAIN child
                    THEN SortedTasks(child[root.id]) ELSE <<>>
  IN <<TaskLine(root, <<>>, pname, day)>>
       \o [i \in DOMAIN children |-> TaskLine(children[i], <<"\t">>, pname, day)]

\* The loop over the sorted root tasks.
RenderedLines(ts, child, pnames, day) ==
  LET roots == SortedTasks(RootTasks(ts))
      upto[i \in 0..Len(roots)] ==
        IF i = 0 THEN <<>>
        ELSE upto[i - 1] \o RootBlock(roots[i], child, pnames, day)
  IN upto[Len(roots)]

\* The leading summary line (the Finnish words in ASCII).
SummaryLine(total_tasks, today_flag) ==
  <<ToString(total_tasks), " ",
    IF total_tasks = 1 THEN "tehtava" ELSE "tehtavaa",
    IF today_flag THEN " tanaan." ELSE ".">>

\* format_todoist_tasks as a whole: the list `formatted_tasks`.
format_todoist_tasks(ts, today_flag, pnames, day) ==
  LET unique == MarkSubtasks(Deduplicated(ts))
  IN <<SummaryLine(Len(ts), today_flag)>>
       \o RenderedLines(unique, GroupChildren(unique), pnames, day)

\* "\n".join(formatted_tasks) read back line by line: the summary line ends
\* with its own "\n", so an empty line follows it.
TextLines(formatted) ==
  IF formatted = <<>> THEN <<>>
  ELSE <<formatted[1], <<>>>> \o Tail(formatted)

-----------------------------------------------------------------------------
(* read_existing_note *)

\* Tokens that \d+ matches.
DigitTokens == {ToString(n) : n \in 0..99}

\* Tokens that end with '>' and hold no text after it.
GtTokens == {">", "</span>"}

\* Where the pieces of the pattern
\*   - \[([ x])\] .*?<span data-id="(\d+)".*?>(.*?)</span>
\* can match in a line: the checkbox, the span, a '>' and a '</span>'.
CheckboxAt(line) ==
  {i \in DOMAIN line : /\ i + 2 <= Len(line)
                       /\ line[i] = "- [" /\ line[i + 1] \in {" ", "x"}
                       /\ line[i + 2] = "] "}

SpanAt(line) ==
  {j \in DOMAIN line : /\ j + 2 <= Len(line)
                       /\ line[j] = "<span data-id=\"" /\ line[j + 1] \in DigitTokens
                       /\ line[j + 2] = "\" data-project=\""}

GtAt(line) == {k \in DOMAIN line : line[k] \in GtTokens}

EndAt(line) == {m \in DOMAIN line : line[m] = "</span>"}

\* The ways the whole pattern matches: <<i, j, k, m>>.
PatternMatches(line) ==
  {mt \in CheckboxAt(line) \X SpanAt(line) \X GtAt(line) \X EndAt(line) :
     mt[1] + 2 < mt[2] /\ mt[2] + 2 < mt[3] /\ mt[3] < mt[4]}

\* re.search: the leftmost match, every lazy quantifier as short as it can be.
FirstMatch(line) ==
  LET ms == PatternMatches(line)
  IN CHOOSE a \in ms : \A b \in ms \ {a} : TupleLess(a, b)

\* line.strip()
Strip(line) == SelectSeq(line, LAMBDA c : c # "\t")

\* The record appended for a matching line.
NoteRecord(line) ==
  LET mt == FirstMatch(line)
  IN [id |-> line[mt[2] + 1],
      content |-> SubSeq(line, mt[3] + 1, mt[4] - 1),
      completed |-> line[mt[1] + 1] = "x",
      line |-> Strip(line)]

\* read_existing_note on the lines of a file.
read_existing_note(lines) ==
  LET matching == SelectSeq(lines, LAMBDA l : PatternMatches(l) # {})
  IN [n \in DOMAIN matching |-> NoteRecord(matching[n])]

-----------------------------------------------------------------------------
(* The idempotency log synced_events.log *)

\* line.split('|')
RECURSIVE SplitPipe(_)
SplitPipe(line) ==
  IF \E i \in DOMAIN line : line[i] = "|"
    THEN LET i == CHOOSE k \in DOMAIN line :
                    line[k] = "|" /\ \A m \in 1..(k - 1) : line[m] # "|"
         IN <<SubSeq(line, 1, i - 1)>> \o SplitPipe(SubSeq(line, i + 1, Len(line)))
    ELSE <<line>>

\* f"{event_id}|{title}|{date}\n"
LogLine(event_id, title, date) == <<event_id, "|">> \o title \o <<"|", ToString(date)>>

\* The date a record is looked up with: the third field of its line.
RecordDate(fields) == fields[3]

\* load_synced_events: the dict comprehension over the lines that hold a '|'.
\* A later line replaces an earlier one with the same first field; a line
\* with fewer than three fields raises, and the function then returns {}.
load_synced_events(log) ==
  LET lines == SelectSeq(log, LAMBDA l : \E i \in DOMAIN l : l[i] = "|")
      fields == [n \in DOMAIN lines |-> SplitPipe(lines[n])]
      keys == {fields[n][1] : n \in DOMAIN fields}
      latest(k) == CHOOSE n \in DOMAIN fields :
                   fields[n][1] = k /\ \A m \in DOMAIN fields : fields[m][1] = k => m <= n
  IN IF \E n \in DOMAIN fields : Len(fields[n]) < 3
       THEN <<>>
       ELSE [k \in keys |-> [title |-> fields[latest(k)][2],
                              date |-> RecordDate(fields[latest(k)])]]

\* task_exists_in_todoist
task_exists_in_todoist(event_id, event_date, log) ==
  LET synced_events == load_synced_events(log)
  IN /\ <<event_id>> \in DOMAIN synced_events
     /\ synced_events[<<event_id>>].date = <<ToString(event_date)>>

-----------------------------------------------------------------------------
(* find_similar_todoist_task *)

\* str.lower() on a token.
Lower(c) ==
  CASE c = "A" -> "a"
    [] c = "B" -> "b"
    [] c = GoogleSuffix -> " @google-kalenterin tapahtuma"
    [] OTHER -> c

\* title.lower().strip(), runs of white space collapsed to one blank, the
\* lower-cased import suffix removed.
NormalizeTitle(title) ==
  LET low == [i \in DOMAIN title |-> Lower(title[i])]
      first == IF \E i \in DOMAIN low : low[i] # " "
                 THEN CHOOSE i \in DOMAIN low :
                        low[i] # " " /\ \A m \in 1..(i - 1) : low[m] = " "
                 ELSE Len(low) + 1
      final == IF \E i \in DOMAIN low : low[i] # " "
                THEN CHOOSE i \in DOMAIN low :
                       low[i] # " " /\ \A m \in (i + 1)..Len(low) : low[m] = " "
                ELSE 0
      stripped == SubSeq(low, first, final)
      keep == {i \in DOMAIN stripped :
                 ~(stripped[i] = " " /\ i > 1 /\ stripped[i - 1] = " ")}
      collapsed == [n \in 1..Cardinality(keep) |->
                      stripped[CHOOSE i \in keep :
                                 Cardinality({m \in keep : m <= i}) = n]]
  IN SelectSeq(collapsed, LAMBDA c : c # " @google-kalenterin tapahtuma")

\* Length of the common block of a and b that starts at a[i], b[j].
RECURSIVE CommonRun(_, _, _, _)
CommonRun(a, i, b, j) ==
  IF i <= Len(a) /\ j <= Len(b) /\ a[i] = b[j]
    THEN 1 + CommonRun(a, i + 1, b, j + 1)
    ELSE 0

\* difflib.SequenceMatcher.find_longest_match: the longest common block,
\* the earliest in a and then the earliest in b among the longest.
LongestMatch(a, b) ==
  LET cands == {<<0 - CommonRun(a, i, b, j), i, j>> :
                  i \in DOMAIN a, j \in DOMAIN b}
  IN IF cands = {} THEN <<0, 0, 0>>
     ELSE CHOOSE c \in cands : \A d \in cands \ {c} : TupleLess(c, d)

\* The number of matched elements: the longest block, then the same to its
\* left and to its right (get_matching_blocks).
RECURSIVE MatchCount(_, _)
MatchCount(a, b) ==
  LET m == LongestMatch(a, b)
      k == 0 - m[1]
  IN IF k = 0 THEN 0
     ELSE k + MatchCount(SubSeq(a, 1, m[2] - 1), SubSeq(b, 1, m[3] - 1))
            + MatchCount(SubSeq(a, m[2] + k, Len(a)), SubSeq(b, m[3] + k, Len(b)))

\* Similarity threshold and time window of the duplicate check.
SimilarityPercent == 70
MaxTimeDiff == 5

\* difflib.SequenceMatcher(None, a, b).ratio() > 0.7, ratio = 2*M / T
\* (1.0 when both are empty).
IsSimilar(a, b) ==
  IF Len(a) + Len(b) = 0 THEN TRUE
  ELSE 2 * MatchCount(a, b) * 100 > SimilarityPercent * (Len(a) + Len(b))

Abs(n) == IF n < 0 THEN 0 - n ELSE n

\* strftime('%Y-%m-%d') of an instant seen with a zone offset.
DateOf(t, offset) == (t + offset) \div 1440

\* The test of one task of all_tasks against the event.
TaskMatchesEvent(task, clean_event, start, offset) ==
  /\ task.due_day # 0
  /\ task.due_day = DateOf(start, offset)
  /\ \/ NormalizeTitle(task.content) = clean_event
     \/ /\ IsSimilar(clean_event, NormalizeTitle(task.content))
        /\ Abs((task.due_day * 1440 + task.due_time) - start) <= MaxTimeDiff

\* find_similar_todoist_task(event_title, start_dt, all_tasks)
find_similar_todoist_task(event_title, start, offset, all_tasks) ==
  \E task \in all_tasks :
    TaskMatchesEvent(task, NormalizeTitle(event_title), start, offset)

-----------------------------------------------------------------------------
(* Rendering a task collection and reading the text back, step by step *)

\* The two projects of the model, as get_project_names() returns them.
AllProjectNames == (1 :> "Work") @@ (2 :> "Home")

\* The tasks the collections are drawn from.  Ids 1 to 3 share one key (3
\* with the import suffix), 4 and 5 are children of 1 with one key, 6 is
\* another child of 1, 7 names a parent that is in no collection, 8 names a
\* parent that is itself a child and 10 is a root with a key of its own.
\* Two entries carry the id 2: the same
\* task fetched as active and as completed.
FormatPool ==
  { Task(1, <<"a">>, FALSE, 1, 0, 1, 0, 0, 0),
    Task(2, <<"a">>, FALSE, 4, 0, 1, 1, 540, 30),
    Task(2, <<"a">>, TRUE, 4, 0, 1, 1, 540, 30),
    Task(3, <<"a", GoogleSuffix>>, TRUE, 1, 0, 2, 1, 1380, 90),
    Task(4, <<"b">>, FALSE, 2, 1, 1, 0, 0, 0),
    Task(5, <<"b">>, TRUE, 4, 1, 2, 0, 0, 0),
    Task(6, <<"c", "|", "d">>, FALSE, 3, 1, 2, 1, 600, 0),
    Task(7, <<"b">>, FALSE, 1, 9, 1, 2, 480, 30),
    Task(8, <<"d">>, FALSE, 1, 4, 1, 0, 0, 0),
    Task(10, <<"d">>, FALSE, 2, 0, 2, 1, 480, 60) }

\* The value of `last` before any event was examined.
NoEvent == [run |-> 0, event |-> "", outcome |-> "none"]

\* The note, the active tasks and the completed-items feed as they are now.
Found == [note |-> note, active |-> todoist, items |-> feed]

\* A local of create_daily_note that no assignment has bound yet.
Unbound == [bound |-> FALSE, lines |-> <<>>]

\* create_daily_note not running: no note, nothing fetched.
RunIdle ==
  /\ note = [exists |-> FALSE, lines |-> <<>>]
  /\ archive = {} /\ feed = {}
  /\ existing_tasks = <<>> /\ tasks = <<>>
  /\ todoist_completion_times = {}
  /\ note_i = 0 /\ task_i = 0
  /\ formatted_backlog = Unbound /\ formatted_future = Unbound
  /\ failed = {} /\ steps = <<>>
  /\ before = [note |-> [exists |-> FALSE, lines |-> <<>>],
               active |-> {}, items |-> {}]

\* The variables of the other parts of the program, at rest.
ImportIdle ==
  /\ RunIdle
  /\ todoist = {} /\ synced_log = <<>> /\ requests = <<>>
  /\ pc = "idle" /\ dry_run = FALSE /\ events = <<>> /\ cal_i = 0 /\ ev_i = 0
  /\ import_run = 0 /\ last = NoEvent /\ settled = {}

FormatInit ==
  /\ ImportIdle
  /\ fpc = "dedup"
  /\ input_tasks \in SeqOf(FormatPool, MaxTasks)
  /\ is_today \in BOOLEAN
  /\ project_names \in {AllProjectNames, <<>>}
  /\ today = 1
  /\ ftasks = input_tasks
  /\ child_tasks = <<>>
  /\ formatted_tasks = <<>>
  /\ note_records = <<>>
  /\ call = 1
  /\ first_text = <<>>

\* Lines 180-210: the summary line and the deduplication.
Deduplicate ==
  /\ fpc = "dedup"
  /\ formatted_tasks' = <<SummaryLine(Len(ftasks), is_today)>>
  /\ ftasks' = Deduplicated(ftasks)
  /\ fpc' = "group"
  /\ UNCHANGED <<input_tasks, is_today, project_names, today, child_tasks, note_records, call, first_text, svars, ivars, rvars>>

\* Lines 212-220: grouping the children under their parent id.
GroupChildTasks ==
  /\ fpc = "group"
  /\ ftasks' = MarkSubtasks(ftasks)
  /\ child_tasks' = GroupChildren(ftasks')
  /\ fpc' = "render"
  /\ UNCHANGED <<input_tasks, is_today, project_names, today, formatted_tasks, note_records, call, first_text, svars, ivars, rvars>>

\* Lines 222-318: sorting the roots and emitting the lines.
RenderTasks ==
  /\ fpc = "render"
  /\ formatted_tasks' =
       formatted_tasks \o RenderedLines(ftasks, child_tasks, project_names, today)
  /\ fpc' = "read"
  /\ UNCHANGED <<input_tasks, is_today, project_names, today, ftasks, child_tasks, note_records, call, first_text, svars, ivars, rvars>>

\* read_existing_note on the text just rendered.
ReadRendered ==
  /\ fpc = "read"
  /\ note_records' = read_existing_note(TextLines(formatted_tasks))
  /\ fpc' = "done"
  /\ UNCHANGED <<input_tasks, is_today, project_names, today, ftasks, child_tasks, formatted_tasks, call, first_text, svars, ivars, rvars>>

\* A second call of format_todoist_tasks on the list the first call was
\* given, whose objects the first call has marked.
CallAgain ==
  /\ fpc = "done"
  /\ call = 1
  /\ call' = 2
  /\ first_text' = formatted_tasks
  /\ ftasks' = TasksAfterCall(input_tasks)
  /\ child_tasks' = <<>>
  /\ formatted_tasks' = <<>>
  /\ note_records' = <<>>
  /\ fpc' = "dedup"
  /\ UNCHANGED <<input_tasks, is_today, project_names, today, svars, ivars, rvars>>

FormatNext ==
  Deduplicate \/ GroupChildTasks \/ RenderTasks \/ ReadRendered \/ CallAgain

SpecFormat == FormatInit /\ [][FormatNext]_vars

-----------------------------------------------------------------------------
(* sync_google_calendar_to_todoist and create_todoist_task *)

\* The calendars dict: work and family calendar, each with its project.
NumCalendars == 2

\* timedelta(days=365) of the guard against far-future events.
MaxFutureDays == 365

\* A calendar event.  start is its start instant, offset the zone offset its
\* dateTime string is written with; an all-day event has 'date' instead.
Event(id, summary, start, offset, minutes, declined, all_day) ==
  [id |-> id, summary |-> summary, start |-> start, offset |-> offset,
   minutes |-> minutes, declined |-> declined, all_day |-> all_day]

\* The date string the event is logged and looked up with.
EventDate(e) == DateOf(e.start, e.offset)

\* The id the service gives the next task it creates.
NextTaskId(all_tasks) ==
  1 + (CHOOSE m \in {t.id : t \in all_tasks} \cup {10} :
         \A k \in {t.id : t \in all_tasks} \cup {10} : k <= m)

\* The task the service stores for the creation request (lines 764-778):
\* the summary as content and the start instant as due datetime, which the
\* service returns in UTC.
CreatedTask(e, project_id, all_tasks) ==
  Task(NextTaskId(all_tasks), e.summary, FALSE, 1, 0, project_id,
       DateOf(e.start, 0), e.start % 1440, e.minutes)

\* `if dry_run:` of create_todoist_task.
DryRunSkips_Never(dry) == FALSE

DryRunSkips(dry) == dry

\* What sync_google_calendar_to_todoist and create_todoist_task come to for
\* one event: fetch_ok tells whether the listing of all tasks succeeds, post
\* what the creation request does ("200", "error" for another status,
\* "raised" for a transport error).
EventOutcome(e, log, all_tasks, day, dry, fetch_ok, post) ==
  CASE e.declined -> "declined"
    [] ~e.declined /\ e.all_day -> "all_day"
    [] OTHER ->
       IF task_exists_in_todoist(e.id, EventDate(e), log) THEN "already_synced"
       ELSE IF e.start > (day + MaxFutureDays) * 1440 THEN "too_far"
       ELSE IF ~fetch_ok THEN "fetch_failed"
       ELSE IF find_similar_todoist_task(e.summary, e.start, e.offset, all_tasks)
         THEN "duplicate"
       ELSE IF DryRunSkips(dry) THEN "dry_run"
       ELSE IF post = "200" THEN "created"
       ELSE IF post = "error" THEN "create_failed"
       ELSE "create_raised"

\* The outcomes after which save_synced_event is called.
SavesRecord(outcome) == outcome \in {"duplicate", "dry_run", "created"}

\* The outcomes in which the creation request was sent.
SendsCreate(outcome) == outcome \in {"created", "create_failed", "create_raised"}

\* Lines 792-811: project ids, token refresh, service construction.  Any of
\* them may raise; create_daily_note catches it and goes on.
ImportStart ==
  /\ pc = "calendar"
  /\ \E ok \in BOOLEAN :
       IF ok THEN pc' = "list_events" /\ cal_i' = 1 /\ ev_i' = 1
       ELSE pc' = "read_note" /\ UNCHANGED <<cal_i, ev_i>>
  /\ UNCHANGED <<fvars, rvars, svars, dry_run, events, import_run, last, settled>>

\* Lines 827-837: the listing of the events of one calendar, which may raise.
ListEvents ==
  /\ pc = "list_events"
  /\ \E ok \in BOOLEAN :
       IF ok THEN pc' = "import_loop" /\ ev_i' = 1
       ELSE pc' = "read_note" /\ UNCHANGED ev_i
  /\ UNCHANGED <<fvars, rvars, svars, dry_run, events, cal_i, import_run, last, settled>>

\* Lines 839-861 and create_todoist_task: one event of the listing.
ImportEvent ==
  /\ pc = "import_loop"
  /\ ev_i <= Len(events[cal_i])
  /\ \E fetch_ok \in BOOLEAN, post \in {"200", "error", "raised"} :
       LET e == events[cal_i][ev_i]
           outcome == EventOutcome(e, synced_log, todoist, today, dry_run,
                                   fetch_ok, post)
       IN /\ last' = [run |-> import_run, event |-> e.id, outcome |-> outcome]
          /\ settled' = IF outcome \in {"created", "duplicate"}
                          THEN settled \cup {<<import_run, e.id>>}
                          ELSE settled
          /\ synced_log' = IF SavesRecord(outcome)
                             THEN Append(synced_log,
                                         LogLine(e.id, e.summary, EventDate(e)))
                             ELSE synced_log
          /\ requests' = IF SendsCreate(outcome)
                           THEN Append(requests,
                                       [kind |-> "create", id |-> e.id,
                                        run |-> import_run,
                                        ok |-> outcome = "created"])
                           ELSE requests
          /\ todoist' = IF outcome = "created"
                          THEN todoist \cup {CreatedTask(e, cal_i, todoist)}
                          ELSE todoist
          /\ IF outcome = "create_raised"
               THEN pc' = "read_note" /\ UNCHANGED ev_i
               ELSE pc' = pc /\ ev_i' = ev_i + 1
  /\ UNCHANGED <<fvars, rvars, dry_run, events, cal_i, import_run>>

\* The end of the loop over the events of a calendar.
EndOfCalendar ==
  /\ pc = "import_loop"
  /\ ev_i > Len(events[cal_i])
  /\ IF cal_i < NumCalendars
       THEN pc' = "list_events" /\ cal_i' = cal_i + 1
       ELSE pc' = "read_note" /\ UNCHANGED cal_i
  /\ UNCHANGED <<fvars, rvars, svars, dry_run, events, ev_i, import_run, last, settled>>

\* The events of the model.  e1 has a '|' in its title and starts at 01:00
\* local time (23:00 UTC of the day before), e2 and e3 start at 09:00 and
\* 09:03 UTC with like titles, e4 was declined, e5 lasts all day.
E1 == Event("e1", <<"a", "|", "b">>, 2820, 120, 30, FALSE, FALSE)
E2 == Event("e2", <<"a", "b", "c", "d">>, 3420, 120, 30, FALSE, FALSE)
E3 == Event("e3", <<"A", "b", "c">>, 3423, 120, 60, FALSE, FALSE)
E4 == Event("e4", <<"d">>, 3600, 120, 30, TRUE, FALSE)
E5 == Event("e5", <<"c">>, 2760, 120, 1440, FALSE, TRUE)

\* The events of the work calendar and of the family calendar; e1 is in both.
EventPool == <<{E1, E2, E3}, {E1, E4, E5}>>

\* The listings of calendar c: at most MaxEvents events in the order of
\* their start (orderBy='startTime').
Listings(c) ==
  {l \in SeqOf(EventPool[c], MaxEvents) :
     \A i, j \in DOMAIN l : i < j => l[i].start < l[j].start}

\* format_todoist_tasks and read_existing_note at rest.
FormatIdle ==
  /\ fpc = "idle" /\ input_tasks = <<>> /\ is_today = FALSE
  /\ project_names = <<>> /\ ftasks = <<>> /\ child_tasks = <<>>
  /\ formatted_tasks = <<>> /\ note_records = <<>>
  /\ call = 0 /\ first_text = <<>>

\* A task the service may hold before the import: like e2 in title, four
\* minutes after it.
ExistingTask == Task(5, <<"a", "b", "c">>, FALSE, 1, 0, 1, 2, 544, 0)

ImportInit ==
  /\ FormatIdle
  /\ RunIdle
  /\ today = 2
  /\ pc = "calendar"
  /\ dry_run \in BOOLEAN
  /\ events \in {ev \in [1..NumCalendars -> Listings(1) \cup Listings(2)] :
                   \A c \in 1..NumCalendars : ev[c] \in Listings(c)}
  /\ cal_i = 0 /\ ev_i = 0
  /\ import_run = 1
  /\ last = NoEvent
  /\ settled = {}
  /\ todoist = {ExistingTask}
  /\ synced_log = <<>>
  /\ requests = <<>>

\* The next scheduled run of the script: the import once more, over the
\* same window and the same events.
ImportAgain ==
  /\ pc = "read_note"
  /\ import_run < MaxImportRuns
  /\ import_run' = import_run + 1
  /\ pc' = "calendar"
  /\ UNCHANGED <<fvars, rvars, svars, dry_run, events, cal_i, ev_i, last, settled>>

ImportNext == ImportStart \/ ListEvents \/ ImportEvent \/ EndOfCalendar \/ ImportAgain

SpecImport == ImportInit /\ [][ImportNext]_vars

-----------------------------------------------------------------------------
(* The fetches of create_daily_note *)

\* The order in which the service lists a set of tasks.
RECURSIVE ById(_)
ById(S) ==
  IF S = {} THEN <<>>
  ELSE LET t == CHOOSE x \in S : \A y \in S : x.id <= y.id
       IN <<t>> \o ById(S \ {t})

\* {task['id'] for task in listed}
IdsOf(listed) == {listed[i].id : i \in DOMAIN listed}

\* Lines 59-64 and 563-568: the listed tasks, then every other task of
\* all_tasks whose parent is listed.
WithSubtasks(listed, all_tasks) ==
  listed \o SelectSeq(all_tasks,
                      LAMBDA t : /\ t.parent_id # 0
                                 /\ t.parent_id \in IdsOf(listed)
                                 /\ t.id \notin IdsOf(listed))

\* sort_key of lines 110-113: '' for a task without due, else the datetime.
ChildSortKey(x) ==
  IF x.due_day = 0 THEN <<0>> ELSE <<x.due_day * 1440 + x.due_time>>

\* Lines 83-118 and 570-605: every root task followed by its children.
OrderedTasks(ts) ==
  LET marked == MarkSubtasks(ts)
      child == GroupChildren(marked)
      roots == RootTasks(marked)
      children(r) == IF r.id \in DOMAIN child
                       THEN StableSort(child[r.id],
                                       [i \in DOMAIN child[r.id] |->
                                          ChildSortKey(child[r.id][i])])
                       ELSE <<>>
      upto[i \in 0..Len(roots)] ==
        IF i = 0 THEN <<>>
        ELSE upto[i - 1] \o <<roots[i]>> \o children(roots[i])
  IN upto[Len(roots)]

\* task_data['completed'] = True
MarkCompleted(t) == [t EXCEPT !.completed = TRUE]

\* Lines 1071-1080: the record built from the feed item alone.
FallbackRecord(t) ==
  Task(t.id, t.content, TRUE, t.priority, t.parent_id, t.project_id, 0, 0, 0)

\* Lines 1048-1080 for one feed item: active and archived are the tasks of
\* the service, detail_ok tells whether the read of an archived task
\* answers 200.
CompletedEntry(item, active, archived, detail_ok) ==
  LET subtasks == SelectSeq(ById(active),
                            LAMBDA t : t.parent_id = item.task_id)
      found == {t \in active : t.id = item.task_id}
                 \cup (IF detail_ok
                         THEN {t \in archived : t.id = item.task_id} ELSE {})
      stored == CHOOSE t \in active \cup archived : t.id = item.task_id
  IN IF found # {}
       THEN <<MarkCompleted(CHOOSE t \in found : TRUE)>>
              \o [i \in DOMAIN subtasks |-> MarkCompleted(subtasks[i])]
       ELSE <<FallbackRecord(stored)>>

\* get_completed_tasks: the feed items completed today, in feed order.
get_completed_tasks(active, archived, items, day, detail_ok) ==
  LET todays == ById({[id |-> it.task_id, item |-> it] :
                        it \in {x \in items : x.day = day}})
      upto[i \in 0..Len(todays)] ==
        IF i = 0 THEN <<>>
        ELSE upto[i - 1]
               \o CompletedEntry(todays[i].item, active, archived, detail_ok)
  IN upto[Len(todays)]

\* What the environment does to one call of get_todoist_tasks: the two
\* listings fail, or they succeed and the completed tasks fail, or all
\* succeed with the detail reads answering 200 or not.
FetchAnswers == {"failed", "no_completed", "fallback", "ok"}

\* get_todoist_tasks (lines 32-130).
get_todoist_tasks(active, archived, items, day, answer) ==
  IF answer = "failed" THEN <<>>
  ELSE LET today_tasks == ById({t \in active : t.due_day = day})
           ordered_tasks == OrderedTasks(WithSubtasks(today_tasks, ById(active)))
           completed_tasks ==
             IF answer = "no_completed" THEN <<>>
             ELSE get_completed_tasks(active, archived, items, day,
                                      answer = "ok")
       IN ordered_tasks \o completed_tasks

\* list.sort(key=lambda x: x.get('priority', 1), reverse=True)
ByPriority(ts) == StableSort(ts, [i \in DOMAIN ts |-> <<0 - ts[i].priority>>])

\* get_backlog_tasks (lines 495-532).
get_backlog_tasks(active, day, ok) ==
  IF ~ok THEN <<>>
  ELSE LET backlog_tasks == ById({t \in active : t.due_day < day})
           today_task_ids == {t.id : t \in {x \in active : x.due_day = day}}
       IN ByPriority(SelectSeq(backlog_tasks,
                               LAMBDA t : t.parent_id \notin today_task_ids))

\* get_future_tasks (lines 534-612).
get_future_tasks(active, day, ok) ==
  IF ~ok THEN <<>>
  ELSE LET future_tasks == ById({t \in active : t.due_day > day})
       IN ByPriority(OrderedTasks(WithSubtasks(future_tasks, ById(active))))

-----------------------------------------------------------------------------
(* The note file *)

\* The phrase that stops the synchronisation.
Marker == "Synkronointi lopetettu"

\* The second line of the NOTE block of the template (line 977).
QuoteLine == <<">", " Lisaa tahan noteen viesti \"", Marker, " klo xx:xx\"">>

\* The f-string of lines 972-989 as the lines of the file.
NoteText(today_text, future_text, backlog_text) ==
  <<<<"# ", "otsikko">>, <<>>, <<"Synkronoitu viimeksi klo ", "HH:MM">>, <<>>,
    <<">", " [!NOTE] Note to self">>, QuoteLine, <<>>,
    <<"## Paivan tehtavat">>, <<>>>>
    \o TextLines(today_text)
    \o <<<<>>, <<"## Myohemmin">>, <<>>>> \o TextLines(future_text)
    \o <<<<>>, <<"## Backlog">>, <<>>>> \o TextLines(backlog_text)

\* line.startswith('>'), with IsBlockquote_Always the test that holds of
\* every line.
IsBlockquote_Always(line) == TRUE

IsBlockquote(line) == line # <<>> /\ line[1] = ">"

\* "Synkronointi lopetettu" in line
HasMarker(line) == \E i \in DOMAIN line : line[i] = Marker

\* check_sync_disabled (lines 880-894) and the same test at the head of
\* sync_tasks_with_todoist (lines 347-358).
check_sync_disabled(file) ==
  /\ file.exists
  /\ \E i \in DOMAIN file.lines :
       ~IsBlockquote(file.lines[i]) /\ HasMarker(file.lines[i])

-----------------------------------------------------------------------------
(* sync_tasks_with_todoist *)

\* `note_task_id in todoist_completion_times`, with RemoteWins_Never the
\* test that never finds a record.
RemoteWins_Never(note_task_id, times) == FALSE

RemoteWins(note_task_id, times) == note_task_id \in times

\* The request of lines 404-409, with PushKind_Swapped the two exchanged.
PushKind_Swapped(note_completed) ==
  IF note_completed THEN "reopen" ELSE "close"

PushKind(note_completed) == IF note_completed THEN "close" ELSE "reopen"

\* What one iteration of the inner loop decides for the pair.
PairDecision(note_task, todoist_task, times) ==
  IF note_task.id # ToString(todoist_task.id) THEN "no_match"
  ELSE IF note_task.completed = todoist_task.completed THEN "equal"
  ELSE IF RemoteWins(note_task.id, times) THEN "remote_wins"
  ELSE PushKind(note_task.completed)

\* The task with the id and its subtasks, among ts.
WithDescendants(id, ts) == {t \in ts : t.id = id \/ t.parent_id = id}

\* The service after POST /tasks/{id}/close answered 204: the task and its
\* subtasks leave the active tasks and the feed gets an item of the day.
ClosedService(id, active, archived, items, day) ==
  IF \E t \in active : t.id = id
    THEN [active |-> active \ WithDescendants(id, active),
          archived |-> archived \cup WithDescendants(id, active),
          items |-> items \cup {[task_id |-> id, day |-> day]}]
    ELSE [active |-> active, archived |-> archived, items |-> items]

\* The service after POST /tasks/{id}/reopen answered 204.
ReopenedService(id, active, archived, items) ==
  IF \E t \in archived : t.id = id
    THEN [active |-> active \cup {t \in archived : t.id = id},
          archived |-> {t \in archived : t.id # id},
          items |-> {it \in items : it.task_id # id}]
    ELSE [active |-> active, archived |-> archived, items |-> items]

-----------------------------------------------------------------------------
(* create_daily_note, step by step *)

\* The day of the run.
RunDay == 2

\* The tasks of the service before the run: a task due today with a
\* subtask without a date, a task due tomorrow and a task without a date.
R1 == Task(1, <<"a">>, FALSE, 1, 0, 1, RunDay, 540, 30)
R2 == Task(2, <<"b">>, FALSE, 2, 1, 1, 0, 0, 0)
R3 == Task(3, <<"c">>, FALSE, 1, 0, 2, RunDay + 1, 600, 0)
R4 == Task(4, <<"d">>, FALSE, 3, 0, 2, 0, 0, 0)

\* A second subtask of task 1, due today at 10:00 UTC.
R5 == Task(5, <<"c">>, FALSE, 1, 1, 1, RunDay, 600, 0)

\* The states of the service before the run.  Task 1 is active with no
\* completion record, or active with a record of the day before or of the
\* day (a recurring task), or completed today together with its subtask, or
\* active with a second subtask, or completed today while the service still
\* lists its subtask as active; tasks 3 and 4 are there or not.
Services ==
  {[active |-> s.active \cup rest, archived |-> s.archived, items |-> s.items] :
     s \in {[active |-> {R1, R2}, archived |-> {}, items |-> {}],
            [active |-> {R1, R2}, archived |-> {},
             items |-> {[task_id |-> 1, day |-> RunDay - 1]}],
            [active |-> {R1, R2}, archived |-> {},
             items |-> {[task_id |-> 1, day |-> RunDay]}],
            [active |-> {}, archived |-> {R1, R2},
             items |-> {[task_id |-> 1, day |-> RunDay]}],
            [active |-> {R1, R2, R5}, archived |-> {}, items |-> {}],
            [active |-> {R2}, archived |-> {R1},
             items |-> {[task_id |-> 1, day |-> RunDay]}]},
     rest \in SUBSET {R3, R4}}

\* The line a user adds to stop the synchronisation.
MarkerLine == <<Marker, " klo 10:00">>

\* The note an earlier run of the day wrote, with the checkboxes of tasks 1
\* and 2 as the user left them.
PreviousNote(checked1, checked2) ==
  NoteText(format_todoist_tasks(<<[R1 EXCEPT !.completed = checked1],
                                  [R2 EXCEPT !.completed = checked2]>>,
                                TRUE, AllProjectNames, RunDay),
           format_todoist_tasks(<<R3>>, FALSE, AllProjectNames, RunDay),
           format_todoist_tasks(<<R4>>, FALSE, AllProjectNames, RunDay))

\* Today's note before the run: none, or the earlier note, with or without
\* the line that stops the synchronisation.
Notes ==
  {[exists |-> FALSE, lines |-> <<>>]}
    \cup {[exists |-> TRUE,
           lines |-> PreviousNote(c1, c2)
                       \o (IF stop THEN <<MarkerLine>> ELSE <<>>)] :
            c1 \in BOOLEAN, c2 \in BOOLEAN, stop \in BOOLEAN}

Init ==
  /\ FormatIdle
  /\ today = RunDay
  /\ pc = "start"
  /\ dry_run \in BOOLEAN
  /\ events = <<<<E2>>, <<>>>>
  /\ cal_i = 0 /\ ev_i = 0
  /\ import_run = 1
  /\ last = NoEvent
  /\ settled = {}
  /\ synced_log = <<>>
  /\ requests = <<>>
  /\ \E s \in Services :
       todoist = s.active /\ archive = s.archived /\ feed = s.items
  /\ note \in Notes
  /\ existing_tasks = <<>> /\ tasks = <<>>
  /\ todoist_completion_times = {}
  /\ note_i = 0 /\ task_i = 0
  /\ formatted_backlog = Unbound /\ formatted_future = Unbound
  /\ failed = {} /\ steps = <<>>
  /\ before = Found

\* The locals of format_todoist_tasks, which create_daily_note does not see.
flocals == <<fpc, input_tasks, is_today, project_names, today, ftasks,
             child_tasks, note_records, call, first_text>>

\* The variables of the import that the later steps leave alone.
ilocals == <<dry_run, events, cal_i, ev_i, import_run, last, settled>>

\* Lines 898-900: check_todoist_api.
\* The record of a step of create_daily_note: its name and how many
\* mutating requests were sent before it began.
Step(name) == [name |-> name, sent |-> Len(requests)]

\* What follows sync_tasks_with_todoist with the rendering at once, without
\* the second get_todoist_tasks.
AfterSync_NoSecondFetch == "backlog"

\* Lines 128-130 and 1082-1084: the transport errors of get_todoist_tasks
\* and of the get_completed_tasks it calls.
FetchFailed(answer) ==
  CASE answer = "failed" -> {"today"}
    [] answer = "no_completed" -> {"completed"}
    [] OTHER -> {}

\* Lines 145-147: get_project_names returns {} after a transport error.
NamesFailed(names) == IF names = <<>> THEN {"projects"} ELSE {}

\* Line 937: sync_tasks_with_todoist returns to the second get_todoist_tasks.
AfterSync == "fetch_again"

CheckApi ==
  /\ pc = "start"
  /\ \E ok \in BOOLEAN : pc' = IF ok THEN "check_disabled" ELSE "aborted"
  /\ UNCHANGED <<fvars, svars, ilocals, rvars>>

\* Lines 917-918: the run ends at once if the note stops the synchronisation.
CheckSyncDisabled ==
  /\ pc = "check_disabled"
  /\ pc' = IF check_sync_disabled(note) THEN "stopped" ELSE "calendar"
  /\ UNCHANGED <<fvars, svars, ilocals, rvars>>

\* Line 928: existing_tasks = read_existing_note(full_path)
ReadNote ==
  /\ pc = "read_note"
  /\ existing_tasks' = IF note.exists THEN read_existing_note(note.lines)
                       ELSE <<>>
  /\ pc' = "fetch"
  /\ UNCHANGED before
  /\ UNCHANGED <<fvars, svars, ilocals, note, archive, feed, tasks,
                 todoist_completion_times, note_i, task_i, formatted_backlog,
                 formatted_future, failed, steps>>

\* Line 931: tasks = get_todoist_tasks()
FirstFetch ==
  /\ pc = "fetch"
  /\ \E answer \in FetchAnswers :
       /\ tasks' = get_todoist_tasks(todoist, archive, feed, today, answer)
       /\ failed' = failed \cup FetchFailed(answer)
  /\ steps' = Append(steps, Step("fetch"))
  /\ pc' = "sync"
  /\ UNCHANGED before
  /\ UNCHANGED <<fvars, svars, ilocals, note, archive, feed, existing_tasks,
                 todoist_completion_times, note_i, task_i, formatted_backlog,
                 formatted_future>>

\* Lines 347-376: the test of the note, then the read of the feed.  A
\* transport error of the read ends the pass.
SyncBegin ==
  /\ pc = "sync"
  /\ IF check_sync_disabled(note)
       THEN /\ pc' = AfterSync
            /\ UNCHANGED <<todoist_completion_times, note_i, task_i, failed>>
       ELSE \E ok \in BOOLEAN :
              IF ok
                THEN /\ todoist_completion_times' =
                          {ToString(it.task_id) : it \in feed}
                     /\ note_i' = 1 /\ task_i' = 1
                     /\ pc' = IF existing_tasks = <<>> \/ tasks = <<>>
                                THEN AfterSync ELSE "sync_loop"
                     /\ UNCHANGED failed
                ELSE /\ pc' = AfterSync
                     /\ failed' = failed \cup {"feed"}
                     /\ UNCHANGED <<todoist_completion_times, note_i, task_i>>
  /\ steps' = Append(steps, Step("sync"))
  /\ UNCHANGED before
  /\ UNCHANGED <<fvars, svars, ilocals, note, archive, feed, existing_tasks,
                 tasks, formatted_backlog, formatted_future>>

\* The next scheduled run of the script, started after a run that wrote the
\* note and met no transport error: nobody has edited the note and nothing
\* has changed in the service.  The locals of the run that ended are gone.
RunAgain ==
  /\ pc = "done"
  /\ import_run < MaxImportRuns
  /\ failed = {} /\ \A k \in DOMAIN requests : requests[k].ok
  /\ import_run' = import_run + 1
  /\ pc' = "start"
  /\ cal_i' = 0 /\ ev_i' = 0
  /\ existing_tasks' = <<>> /\ tasks' = <<>>
  /\ todoist_completion_times' = {}
  /\ note_i' = 0 /\ task_i' = 0
  /\ formatted_backlog' = Unbound /\ formatted_future' = Unbound
  /\ formatted_tasks' = <<>>
  /\ steps' = <<>>
  /\ before' = Found
  /\ UNCHANGED <<flocals, svars, dry_run, events, last, settled, note,
                 archive, feed, failed>>

\* Lines 378-409: one iteration of the inner loop, for the pair of
\* existing_tasks[note_i] and tasks[task_i].
SyncPair ==
  /\ pc = "sync_loop"
  /\ LET note_task == existing_tasks[note_i]
         todoist_task == tasks[task_i]
         decision == PairDecision(note_task, todoist_task,
                                  todoist_completion_times)
     IN CASE decision = "remote_wins" ->
               /\ existing_tasks' =
                    [existing_tasks EXCEPT
                       ![note_i].completed = todoist_task.completed]
               /\ UNCHANGED <<todoist, archive, feed, requests>>
          [] decision \in {"close", "reopen"} ->
               \E ok \in BOOLEAN :
                 LET after ==
                       IF ~ok
                         THEN [active |-> todoist, archived |-> archive,
                               items |-> feed]
                       ELSE IF decision = "close"
                         THEN ClosedService(todoist_task.id, todoist, archive,
                                            feed, today)
                       ELSE ReopenedService(todoist_task.id, todoist, archive,
                                            feed)
                 IN /\ requests' = Append(requests,
                                          [kind |-> decision,
                                           id |-> ToString(todoist_task.id),
                                           run |-> import_run, ok |-> ok])
                    /\ todoist' = after.active
                    /\ archive' = after.archived
                    /\ feed' = after.items
                    /\ UNCHANGED existing_tasks
          [] OTHER ->
               UNCHANGED <<existing_tasks, todoist, archive, feed, requests>>
  /\ IF task_i < Len(tasks)
       THEN task_i' = task_i + 1 /\ UNCHANGED <<note_i, pc>>
       ELSE IF note_i < Len(existing_tasks)
         THEN task_i' = 1 /\ note_i' = note_i + 1 /\ UNCHANGED pc
         ELSE pc' = AfterSync /\ UNCHANGED <<note_i, task_i>>
  /\ UNCHANGED before
  /\ UNCHANGED <<flocals, formatted_tasks, synced_log, ilocals, note, tasks,
                 todoist_completion_times, formatted_backlog,
                 formatted_future, failed, steps>>

\* Lines 937-945: the second fetch and the text of the tasks of the day.
SecondFetch ==
  /\ pc = "fetch_again"
  /\ \E answer \in FetchAnswers, names \in {AllProjectNames, <<>>} :
       /\ tasks' = get_todoist_tasks(todoist, archive, feed, today, answer)
       /\ formatted_tasks' = format_todoist_tasks(tasks', TRUE, names, today)
       /\ failed' = failed \cup FetchFailed(answer) \cup NamesFailed(names)
  /\ steps' = Append(steps, Step("fetch"))
  /\ pc' = "backlog"
  /\ UNCHANGED before
  /\ UNCHANGED <<flocals, svars, ilocals, note, archive, feed, existing_tasks,
                 todoist_completion_times, note_i, task_i, formatted_backlog,
                 formatted_future>>

\* Lines 948-953: formatted_backlog is assigned only if there are tasks.
FetchBacklog ==
  /\ pc = "backlog"
  /\ \E ok \in BOOLEAN, names \in {AllProjectNames, <<>>} :
       LET backlog_tasks == get_backlog_tasks(todoist, today, ok)
       IN /\ formatted_backlog' =
               IF Len(backlog_tasks) > 0
                 THEN [bound |-> TRUE,
                       lines |-> format_todoist_tasks(backlog_tasks, FALSE,
                                                      names, today)]
                 ELSE formatted_backlog
          /\ failed' = failed \cup (IF ok THEN {} ELSE {"backlog"})
                              \cup (IF Len(backlog_tasks) > 0
                                      THEN NamesFailed(names) ELSE {})
  /\ steps' = Append(steps, Step("backlog"))
  /\ pc' = "future"
  /\ UNCHANGED before
  /\ UNCHANGED <<fvars, svars, ilocals, note, archive, feed, existing_tasks,
                 tasks, todoist_completion_times, note_i, task_i,
                 formatted_future>>

\* Lines 956-961: formatted_future is assigned only if there are tasks.
FetchFuture ==
  /\ pc = "future"
  /\ \E ok \in BOOLEAN, names \in {AllProjectNames, <<>>} :
       LET future_tasks == get_future_tasks(todoist, today, ok)
       IN /\ formatted_future' =
               IF Len(future_tasks) > 0
                 THEN [bound |-> TRUE,
                       lines |-> format_todoist_tasks(future_tasks, FALSE,
                                                      names, today)]
                 ELSE formatted_future
          /\ failed' = failed \cup (IF ok THEN {} ELSE {"future"})
                              \cup (IF Len(future_tasks) > 0
                                      THEN NamesFailed(names) ELSE {})
  /\ steps' = Append(steps, Step("future"))
  /\ pc' = "write"
  /\ UNCHANGED before
  /\ UNCHANGED <<fvars, svars, ilocals, note, archive, feed, existing_tasks,
                 tasks, todoist_completion_times, note_i, task_i,
                 formatted_backlog>>

\* Lines 972-996: the f-string reads formatted_future and formatted_backlog;
\* reading an unbound local raises UnboundLocalError, which nothing catches,
\* and the file is not written.
WriteNote ==
  /\ pc = "write"
  /\ IF formatted_future.bound /\ formatted_backlog.bound
       THEN /\ note' = [exists |-> TRUE,
                        lines |-> NoteText(formatted_tasks,
                                           formatted_future.lines,
                                           formatted_backlog.lines)]
            /\ steps' = Append(steps, Step("write"))
            /\ pc' = "done"
       ELSE pc' = "crashed" /\ UNCHANGED <<note, steps>>
  /\ UNCHANGED before
  /\ UNCHANGED <<fvars, svars, ilocals, archive, feed, existing_tasks, tasks,
                 todoist_completion_times, note_i, task_i, formatted_backlog,
                 formatted_future, failed>>

Next ==
  \/ CheckApi \/ CheckSyncDisabled
  \/ ImportStart \/ ListEvents \/ ImportEvent \/ EndOfCalendar
  \/ ReadNote \/ FirstFetch \/ SyncBegin \/ SyncPair
  \/ SecondFetch \/ FetchBacklog \/ FetchFuture \/ WriteNote

Spec == Init /\ [][Next]_vars

\* Two runs in a row, from the services in which a run gets as far as the
\* write of the note (tasks 3 and 4 are there), with an earlier note of the
\* day that does not stop the synchronisation.
InitRuns ==
  /\ Init
  /\ {R3, R4} \subseteq todoist
  /\ ~dry_run
  /\ note.exists /\ ~check_sync_disabled(note)

NextRuns == Next \/ RunAgain

SpecRuns == InitRuns /\ [][NextRuns]_vars

-----------------------------------------------------------------------------
(* Properties of format_todoist_tasks and read_existing_note *)

\* The deduplication key of a task as the specification states it.
DedupKey(t) == <<StripSuffix(t.content), t.parent_id>>

\* A task as it was handed in (before is_subtask was set on it).
AsInput(t) == [t EXCEPT !.is_subtask = FALSE]

\* The task lines among the rendered lines that carry the id of a task.
LinesOf(id) ==
  {n \in DOMAIN formatted_tasks :
     \E j \in DOMAIN formatted_tasks[n] :
       /\ j < Len(formatted_tasks[n])
       /\ formatted_tasks[n][j] = "<span data-id=\""
       /\ formatted_tasks[n][j + 1] = ToString(id)}

\* C5: after the deduplication no two surviving tasks have the same key
\* (content without the import suffix, parent_id), the survivor of a key is an
\* input task with the largest id among the input tasks of that key, and
\* every key of the input keeps a survivor.
C5_DedupKeepsLargestId ==
  fpc # "dedup" =>
    /\ \A i, j \in DOMAIN ftasks :
         DedupKey(ftasks[i]) = DedupKey(ftasks[j]) => i = j
    /\ \A i \in DOMAIN ftasks :
         /\ AsInput(ftasks[i]) \in Range(input_tasks)
         /\ \A t \in Range(input_tasks) :
              DedupKey(t) = DedupKey(ftasks[i]) => t.id <= ftasks[i].id
    /\ \A t \in Range(input_tasks) :
         \E i \in DOMAIN ftasks : DedupKey(ftasks[i]) = DedupKey(t)

\* C5 witness: two input tasks of one key, the larger id first, were merged.
C5_Witness ==
  /\ fpc = "group"
  /\ Len(ftasks) < Len(input_tasks)
  /\ \E i, j \in DOMAIN input_tasks :
       /\ i < j
       /\ DedupKey(input_tasks[i]) = DedupKey(input_tasks[j])
       /\ input_tasks[i].id > input_tasks[j].id

\* C6: among the rendered tasks of one parent group (the roots, or the
\* children of one parent) an incomplete task comes before a completed one,
\* and of two incomplete tasks the one with the greater priority comes first.
C6_OrderWithinGroup ==
  fpc \in {"read", "done"} =>
    \A A, B \in Range(ftasks) :
      ( /\ A.parent_id = B.parent_id
        /\ \/ ~A.completed /\ B.completed
           \/ ~A.completed /\ ~B.completed /\ A.priority > B.priority )
      => \A a \in LinesOf(A.id), b \in LinesOf(B.id) : a < b

\* C6 witness: two rendered children of one parent, a completed one listed
\* before an incomplete one in the input.
C6_Witness ==
  /\ fpc = "done"
  /\ \E i, j \in DOMAIN ftasks :
       /\ i < j
       /\ ftasks[i].parent_id # 0
       /\ ftasks[i].parent_id = ftasks[j].parent_id
       /\ ftasks[i].completed /\ ~ftasks[j].completed
       /\ LinesOf(ftasks[i].id) # {} /\ LinesOf(ftasks[j].id) # {}

\* Line n of the rendered text was produced by task t.
ProducedBy(n, t) ==
  \E indent \in {<<>>, <<"\t">>}, pname \in {"", "Work", "Home"} :
    formatted_tasks[n] = TaskLine(t, indent, pname, today)

\* C7: every rendered task line, read back by read_existing_note, gives a
\* record with the id, the completed flag and the content (the title without
\* the import suffix) of the task that produced the line.
C7_RoundTrip ==
  fpc = "done" =>
    /\ Len(note_records) = Len(formatted_tasks) - 1
    /\ \A n \in 2..Len(formatted_tasks) : \A t \in Range(ftasks) :
         ProducedBy(n, t) =>
           /\ note_records[n - 1].id = ToString(t.id)
           /\ note_records[n - 1].completed = t.completed
           /\ note_records[n - 1].content = StripSuffix(t.content)

\* The part of C7 that the code does satisfy: the id and the completed flag.
C7_IdAndCompletedRoundTrip ==
  fpc = "done" =>
    /\ Len(note_records) = Len(formatted_tasks) - 1
    /\ \A n \in 2..Len(formatted_tasks) : \A t \in Range(ftasks) :
         ProducedBy(n, t) =>
           /\ note_records[n - 1].id = ToString(t.id)
           /\ note_records[n - 1].completed = t.completed

\* A task whose parent_id names no root task of the deduplicated collection.
IsOrphan(t) ==
  /\ t.parent_id # 0
  /\ ~\E r \in Range(ftasks) : r.id = t.parent_id /\ r.parent_id = 0

\* C9: every task that survives the deduplication is exactly one line of the
\* rendered output, and a task whose parent is absent or is itself a child is
\* rendered as a root of its own (a line without indent).
C9_NoTaskDropped ==
  fpc \in {"read", "done"} =>
    \A t \in Range(ftasks) :
      /\ Cardinality(LinesOf(t.id)) = 1
      /\ IsOrphan(t) =>
           \A n \in LinesOf(t.id) : formatted_tasks[n][1] # "\t"

\* C11: a second call of format_todoist_tasks on the task objects of the
\* first call, with the same project names and the same render date, gives
\* the text of the first call.
C11_SecondCallSameText ==
  (call = 2 /\ fpc \in {"read", "done"}) => formatted_tasks = first_text

\* C11 witness: the second call has rendered a list in which the first call
\* marked a subtask and left another task of the same key unmarked.
C11_Witness ==
  /\ call = 2 /\ fpc = "done"
  /\ \E i, j \in DOMAIN input_tasks :
       /\ TasksAfterCall(input_tasks)[i].is_subtask
       /\ ~TasksAfterCall(input_tasks)[j].is_subtask
       /\ DedupKey(input_tasks[i]) = DedupKey(input_tasks[j])
       /\ LinesOf(input_tasks[i].id) # {}

\* The project name in the anchor of a rendered line.
AnchorProject(line) ==
  LET j == CHOOSE x \in DOMAIN line : line[x] = "\" data-project=\""
  IN line[j + 1]

\* C16: the line of a child task has one leading indent unit and its
\* parent's project name in the anchor exactly when the child and its parent
\* have the same project_id; the line of a child whose project_id differs
\* from its parent's has no indent.
C16_IndentIffSameProject ==
  fpc = "done" =>
    \A c, r \in DOMAIN ftasks : \A n \in LinesOf(ftasks[c].id) :
      (ftasks[c].parent_id # 0 /\ ftasks[r].id = ftasks[c].parent_id) =>
        LET line == formatted_tasks[n]
            same == ftasks[c].project_id = ftasks[r].project_id
        IN /\ same <=> (/\ line[1] = "\t"
                        /\ AnchorProject(line) = ProjectName(ftasks[r], project_names))
           /\ ~same => line[1] # "\t"

\* C22: the number of the leading summary line is the number of task lines
\* rendered below it, for every input list.
C22_SummaryCountsRenderedLines ==
  fpc \in {"read", "done"} =>
    formatted_tasks[1][1] = ToString(Len(formatted_tasks) - 1)

-----------------------------------------------------------------------------
(* Properties of create_daily_note and sync_tasks_with_todoist *)

\* Today's note has the phrase on a line that does not start with '>'.
MarkerOutsideQuote ==
  /\ note.exists
  /\ \E i \in DOMAIN note.lines :
       /\ note.lines[i] = <<>> \/ note.lines[i][1] # ">"
       /\ \E k \in DOMAIN note.lines[i] :
            note.lines[i][k] = "Synkronointi lopetettu"

\* The requests that change the to-do service.
MutatingKinds == {"create", "close", "reopen", "update"}

\* C1: if today's note has the phrase "Synkronointi lopetettu" on a line
\* that does not start with '>', the run sends no create, close, reopen or
\* update request to the to-do service.
C1_MarkerStopsRemoteWrites ==
  MarkerOutsideQuote =>
    \A n \in DOMAIN requests : requests[n].kind \notin MutatingKinds

\* C1 witness: a run found the phrase and ended without a request.
C1_Witness ==
  pc = "stopped" /\ MarkerOutsideQuote /\ requests = <<>>

\* The pair the inner loop is at has one id.
MatchingPair ==
  /\ pc = "sync_loop"
  /\ existing_tasks[note_i].id = ToString(tasks[task_i].id)

\* The completion flags of the pair differ.
FlagsDiffer ==
  existing_tasks[note_i].completed # tasks[task_i].completed

\* The completed-items feed of the service has a record for the id.
FeedHasRecord(id) == \E it \in feed : ToString(it.task_id) = id

\* C2: in a reconciliation pass, for a note task and a fetched task of one
\* id whose completion flags differ, if the completed-items feed has no
\* record for the id, a close request is sent for the task when the note
\* marks it complete and a reopen request when the note marks it incomplete.
C2_NoteStatePushed ==
  [][ (MatchingPair /\ FlagsDiffer /\ ~FeedHasRecord(existing_tasks[note_i].id))
      => \E ok \in BOOLEAN :
           requests' =
             Append(requests,
                    [kind |-> IF existing_tasks[note_i].completed
                                THEN "close" ELSE "reopen",
                     id |-> existing_tasks[note_i].id,
                     run |-> import_run, ok |-> ok]) ]_vars

\* C2 witness: a pass sent a close or reopen request for a task without a
\* record in the feed that the pass read, a close request if the note marks
\* the task complete and a reopen request if it marks the task incomplete.
C2_Witness ==
  \E k \in DOMAIN requests :
    /\ requests[k].kind \in {"close", "reopen"}
    /\ requests[k].id \notin todoist_completion_times
    /\ \E n \in DOMAIN existing_tasks :
         /\ existing_tasks[n].id = requests[k].id
         /\ existing_tasks[n].completed = (requests[k].kind = "close")

\* C3: in a reconciliation pass, for a note task and a fetched task of one
\* id whose completion flags differ, if the completed-items feed has a
\* record for the id, no close or reopen request is sent and the completion
\* flag of the note record becomes the flag of the fetched task.
C3_RemoteWins ==
  [][ (MatchingPair /\ FlagsDiffer /\ FeedHasRecord(existing_tasks[note_i].id))
      => ( /\ requests' = requests
           /\ existing_tasks'[note_i].completed = tasks[task_i].completed ) ]_vars

\* C3 witness: a note record with a completion record in the feed no longer
\* has the flag of its line in the note, and no request was sent for its id.
C3_Witness ==
  /\ note.exists
  /\ \E n \in DOMAIN existing_tasks :
       /\ existing_tasks[n].id \in todoist_completion_times
       /\ existing_tasks[n].completed
            # read_existing_note(note.lines)[n].completed
       /\ \A k \in DOMAIN requests : requests[k].id # existing_tasks[n].id

\* C8: a run in which a fetch of the tasks of the day, of the future tasks
\* or of the backlog met a transport error still completes and writes the
\* note file.
C8_FailedFetchStillWritesNote ==
  (failed \cap {"today", "future", "backlog"} # {} /\ pc \in {"done", "crashed"})
    => pc = "done"

\* The active tasks among the fetched ones: get_completed_tasks marks every
\* task it returns as completed.
ActiveFetched == SelectSeq(tasks, LAMBDA t : ~t.completed)

\* C15: in the active tasks that get_todoist_tasks returns, every child
\* follows its root with only children of that root in between, the children
\* of a root are in ascending order of their scheduled time, and a child
\* without a scheduled time comes after every child that has one.
C15_ChildrenAfterRootByTime ==
  pc = "sync" =>
    LET at == ActiveFetched
    IN \A j \in DOMAIN at :
         at[j].parent_id # 0 =>
           /\ \E r \in 1..(j - 1) :
                /\ at[r].id = at[j].parent_id
                /\ \A m \in (r + 1)..j : at[m].parent_id = at[r].id
           /\ \A i \in 1..(j - 1) :
                at[i].parent_id = at[j].parent_id =>
                  /\ at[i].due_day = 0 => at[j].due_day = 0
                  /\ (at[i].due_day # 0 /\ at[j].due_day # 0) =>
                       at[i].due_day * 1440 + at[i].due_time
                         <= at[j].due_day * 1440 + at[j].due_time

\* The names of the steps of a run that wrote the note, in order.
RunOrder == <<"fetch", "sync", "fetch", "backlog", "future", "write">>

\* C17: in a run that reaches the note write the steps come in the order
\* calendar import, first fetch, reconciliation, second fetch, rendering,
\* write.  Every creation of the import is sent before the first fetch, every
\* close or reopen between the start of the reconciliation and the start of
\* the second fetch, no mutating request after that, and the note is written
\* once, as the last step.
C17_StepsInOrder ==
  pc = "done" =>
    /\ [n \in DOMAIN steps |-> steps[n].name] = RunOrder
    /\ \A k \in DOMAIN requests :
         requests[k].run = import_run =>
           /\ requests[k].kind = "create" => k <= steps[1].sent
           /\ requests[k].kind \in {"close", "reopen"} =>
                steps[2].sent < k /\ k <= steps[3].sent
    /\ \A n \in 3..Len(steps) : steps[n].sent = Len(requests)

C17_Witness ==
  /\ pc = "done"
  /\ \E j, k \in DOMAIN requests :
       requests[j].kind = "create" /\ requests[k].kind \in {"close", "reopen"}

\* C19: a close request is sent only for a task that is active in the
\* service at that moment, a reopen request only for a task that is completed
\* in the service at that moment.
C19_RequestFitsRemoteState ==
  [][ (pc = "sync_loop" /\ Len(requests') = Len(requests) + 1) =>
        LET sent == requests'[Len(requests')]
        IN /\ sent.kind = "close" =>
                \E t \in todoist : ToString(t.id) = sent.id
           /\ sent.kind = "reopen" =>
                \E t \in archive : ToString(t.id) = sent.id ]_vars

\* C18: in a run that follows a run which wrote the note, with the note and
\* the service untouched in between, no close and no reopen request is sent,
\* whatever the state of the service; no request and no fetch of either run
\* has met a transport error.
C18_SecondRunSendsNothing ==
  (failed = {} /\ \A k \in DOMAIN requests : requests[k].ok) =>
    \A k \in DOMAIN requests :
      requests[k].run > 1 => requests[k].kind \notin {"close", "reopen"}

\* The note n has a task line for the id with a checked box.
NoteChecks(n, id) ==
  /\ n.exists
  /\ \E rec \in Range(read_existing_note(n.lines)) :
       rec.id = id /\ rec.completed

\* C20: if the note the run found marks a task complete that the service
\* held as active with no completion record, and the run has written the
\* note, then the task is completed in the service or the rewritten note
\* still shows it checked.  The case is the one in which the reconciliation
\* sent a close request for the task and no fetch of the run met a transport
\* error, so that only the close request can have failed.
C20_CompletionNotLost ==
  (pc = "done" /\ failed = {}) =>
    \A t \in before.active :
      (/\ NoteChecks(before.note, ToString(t.id))
       /\ \A it \in before.items : it.task_id # t.id
       /\ \E k \in DOMAIN requests :
            requests[k].kind = "close" /\ requests[k].id = ToString(t.id))
        => (\/ \E x \in archive : x.id = t.id
            \/ NoteChecks(note, ToString(t.id)))

\* C21 as stated: in dry-run mode a whole run sends no create, no close, no
\* reopen and no update request to the to-do service.
C21_DryRunSendsNothing ==
  dry_run => \A n \in DOMAIN requests : requests[n].kind \notin MutatingKinds

\* C21, amended: in dry-run mode a whole run sends no create and no update
\* request; the requests it sends are the close and reopen requests of the
\* reconciliation, which does not know the flag.
C21_DryRunSendsNoCreate ==
  dry_run =>
    /\ \A n \in DOMAIN requests : requests[n].kind \in {"close", "reopen"}
    /\ requests # <<>> => pc \notin {"calendar", "list_events", "import_loop",
                                     "read_note", "fetch", "sync"}

\* A dry run that skipped the creation of an event's task, sent a request in
\* the reconciliation and wrote the note.
C21_Witness ==
  /\ dry_run
  /\ pc = "done"
  /\ last.outcome = "dry_run"
  /\ \E n \in DOMAIN requests : requests[n].kind \in {"close", "reopen"}

-----------------------------------------------------------------------------
(* Properties of the calendar import *)

\* The creation requests among the requests sent.
CreateRequests == {n \in DOMAIN requests : requests[n].kind = "create"}

\* C4: when the import runs twice over the same window and events, not in
\* dry-run, the second run sends no creation request for an event for which
\* the first run created a task or found a duplicate.
C4_SecondRunSkipsSettledEvents ==
  ~dry_run =>
    \A n \in CreateRequests :
      requests[n].run = 2 => <<1, requests[n].id>> \notin settled

\* The event the loop is about to examine would be created outside dry-run:
\* not declined, not all-day, not in the log, not too far ahead and without
\* a similar task in the service.
WouldCreate(e) ==
  /\ ~e.declined /\ ~e.all_day
  /\ ~task_exists_in_todoist(e.id, EventDate(e), synced_log)
  /\ e.start <= (today + MaxFutureDays) * 1440
  /\ ~find_similar_todoist_task(e.summary, e.start, e.offset, todoist)

\* C10: in dry-run mode, for an event the import would otherwise create
\* (and whose task listing succeeds), the step appends the idempotency
\* record of the event to the log and sends no request to the service.
C10_DryRunRecordsWithoutCreating ==
  [][ ( /\ dry_run
        /\ pc = "import_loop"
        /\ ev_i <= Len(events[cal_i])
        /\ WouldCreate(events[cal_i][ev_i])
        /\ last'.outcome # "fetch_failed" )
      => ( /\ synced_log' =
                Append(synced_log,
                       LogLine(events[cal_i][ev_i].id, events[cal_i][ev_i].summary,
                               EventDate(events[cal_i][ev_i])))
           /\ requests' = requests
           /\ todoist' = todoist ) ]_vars

\* C10 witness: a dry run has just recorded an event it would have created.
C10_Witness ==
  /\ dry_run
  /\ last.outcome = "dry_run"
  /\ synced_log # <<>>
  /\ requests = <<>>

\* C12: a creation request that fails, by an error response or by a
\* transport error, does not stop the import: the loop goes on to the next
\* event of the listing.
C12_FailedCreationDoesNotStopImport ==
  [][ ( /\ pc = "import_loop"
        /\ Len(requests') = Len(requests) + 1
        /\ ~requests'[Len(requests')].ok )
      => (pc' = "import_loop" /\ ev_i' = ev_i + 1) ]_vars

\* The event gets as far as the duplicate check: it is not declined, not
\* all-day, not found in the log and not too far ahead.
ReachesDuplicateCheck(e) ==
  /\ ~e.declined /\ ~e.all_day
  /\ ~task_exists_in_todoist(e.id, EventDate(e), synced_log)
  /\ e.start <= (today + MaxFutureDays) * 1440

\* Some task of the service has the normalized title and the date of the
\* event, or a title similar to more than 0.7 and a start within 5 minutes
\* of the start of the event.
DuplicateAsStated(e) ==
  \E task \in todoist :
    /\ task.due_day # 0
    /\ \/ /\ NormalizeTitle(task.content) = NormalizeTitle(e.summary)
          /\ task.due_day = EventDate(e)
       \/ /\ IsSimilar(NormalizeTitle(e.summary), NormalizeTitle(task.content))
          /\ Abs((task.due_day * 1440 + task.due_time) - e.start) <= 5

\* C13: an event that gets as far as the duplicate check, with the task
\* listing read, is treated as a duplicate (no creation request, a record
\* appended to the log) exactly when some task of the service has the same
\* normalized title and date, or a similarity above 0.7 and a start within
\* 5 minutes of the event's.
C13_DuplicateExactlyWhenStated ==
  [][ ( /\ pc = "import_loop"
        /\ ev_i <= Len(events[cal_i])
        /\ ReachesDuplicateCheck(events[cal_i][ev_i])
        /\ last'.outcome # "fetch_failed" )
      => ( /\ (last'.outcome = "duplicate")
                 <=> DuplicateAsStated(events[cal_i][ev_i])
           /\ DuplicateAsStated(events[cal_i][ev_i]) =>
                /\ requests' = requests
                /\ Len(synced_log') = Len(synced_log) + 1 ) ]_vars

\* The log holds a line that an append wrote for the id and the date of the
\* event: the id, a title, the date.
LogHasRecord(e) ==
  \E n \in DOMAIN synced_log :
    LET line == synced_log[n]
    IN /\ Len(line) >= 4
       /\ line[1] = e.id /\ line[2] = "|"
       /\ line[Len(line) - 1] = "|"
       /\ line[Len(line)] = ToString(EventDate(e))

\* C14: an event that is neither declined nor all-day and for whose id and
\* date the log holds a record is skipped: no duplicate check, no creation
\* request, no new record.
C14_LoggedEventIsSkipped ==
  [][ ( /\ pc = "import_loop"
        /\ ev_i <= Len(events[cal_i])
        /\ ~events[cal_i][ev_i].declined
        /\ ~events[cal_i][ev_i].all_day
        /\ LogHasRecord(events[cal_i][ev_i]) )
      => ( /\ last'.outcome = "already_synced"
           /\ requests' = requests
           /\ synced_log' = synced_log
           /\ todoist' = todoist ) ]_vars

=============================================================================
